---------------------------- MODULE Spec2Model ----------------------------
(***************************************************************************)
(* Gesture-to-playback trigger of posemusic-web (src/camera.js).           *)
(*                                                                         *)
(* The frame loop (poseDetectionFrame) classifies every detected pose with *)
(* an if / else-if chain and calls the async function updateState with the *)
(* matched gesture name.  updateState compares the name with the module    *)
(* variable currentState, issues a play request (and a follow-up seek) to  *)
(* the playback service and assigns currentState only AFTER those awaited  *)
(* calls have settled.  Scores are modelled in hundredths (0.15 -> 15),    *)
(* positions in pixels, offsets in milliseconds.                           *)
(***************************************************************************)
EXTENDS Integers, Sequences, FiniteSets, TLC

VARIABLES
    currentState,    \* let currentState (camera.js:29)
    selectedDevice,  \* value of the selected <option> of #devices, or NoDevice
    posesLeft,       \* poses of the running poses.forEach not yet visited
    calls,           \* updateState invocations that reached spotifyApi.play
    requests,        \* calls made to the playback / authorization services
    classified,      \* result of the gesture chain for every pose visited
    consoleErrors,   \* names reported through console.error (camera.js:80)
    thrown,          \* TypeErrors that escaped the forEach callback
    pose,            \* the element of poses the forEach callback is at
    guiState,        \* the thresholds of the selected algorithm
    page             \* "loaded", or "left" once the window has navigated away

vars == <<currentState, selectedDevice, posesLeft, calls, requests,
          classified, consoleErrors, thrown, pose, guiState, page>>

(***************************************************************************)
(* Bounds of the model.                                                    *)
(***************************************************************************)
MaxEvents == 2      \* poses visited in a run of the frame loop (Spec)
MaxDeep == 3        \* poses visited in a run of the frame loop (SpecDeep)
MaxPoses == 2       \* poses delivered by one frame
MaxFed == 6         \* poses visited in a run of the sequential feed (SpecSeq)

(***************************************************************************)
(* Static data.                                                            *)
(***************************************************************************)
NoMatch == "none"            \* no branch of the chain matched
TypeError == "TypeError"     \* property read on undefined
NoDevice == "no-selection"   \* e.options[e.selectedIndex] is undefined
DeviceList == <<"dev-a", "dev-b">>   \* the <option>s of #devices, in order

songLookup ==
    [n \in {"YMCA", "Baby Shark", "Disco", "Thriller"} |->
        CASE n = "YMCA" ->
                [uri |-> "spotify:track:7Cp69rNBwU0gaFT8zxExlE", position |-> 58 * 1000]
          [] n = "Baby Shark" ->
                [uri |-> "spotify:track:5ygDXis42ncn6kYG14lEVG", position |-> 4 * 1000]
          [] n = "Disco" ->
                [uri |-> "spotify:track:7qK3JFriCqLorQivsJYG2X", position |-> 0]
          [] n = "Thriller" ->
                [uri |-> "spotify:track:7azo4rpSUh8nXgtonC6Pkq", position |-> 90500]]

minPoseConfidence == 15
minPartConfidence == 10

\* guiState.singlePoseDetection
singleMinPoseConfidence == 10
singleMinPartConfidence == 50

\* The thresholds the frame loop reads for guiState.algorithm.
multiPoseDetection ==
    [minPoseConfidence |-> minPoseConfidence,
     minPartConfidence |-> minPartConfidence]
singlePoseDetection ==
    [minPoseConfidence |-> singleMinPoseConfidence,
     minPartConfidence |-> singleMinPartConfidence]

armParts6 == <<"leftWrist", "leftElbow", "leftShoulder",
               "rightWrist", "rightElbow", "rightShoulder">>
armParts4 == <<"leftWrist", "leftElbow", "rightWrist", "rightElbow">>
headParts == <<"nose", "leftEye", "rightEye", "leftEar", "rightEar">>

Range(s) == {s[i] : i \in DOMAIN s}
Devices == Range(DeviceList)
Parts == Range(armParts6) \cup Range(headParts)


(***************************************************************************)
(* Gesture classifier: the closures and the if / else-if chain inside the  *)
(* second poses.forEach of poseDetectionFrame.  kps maps a part name to    *)
(* its keypoint; a part that keypoints.find does not find is outside       *)
(* DOMAIN kps, and reading a property of it throws.                        *)
(***************************************************************************)
Missing(kps, partNames) ==
    \E i \in DOMAIN partNames : partNames[i] \notin DOMAIN kps

getScore(kps, partName) == kps[partName].score
getX(kps, partName) == kps[partName].x
getY(kps, partName) == kps[partName].y

\* Variant: >= in place of >.
isAllConfidentParts_orEqual(kps, minPart, partNames) ==
    \A i \in DOMAIN partNames : getScore(kps, partNames[i]) >= minPart

isAllConfidentParts(kps, minPart, partNames) ==
    \A i \in DOMAIN partNames : getScore(kps, partNames[i]) > minPart

\* The head parts that pass the filter of headX().
headVals(kps, minPart) ==
    {p \in Range(headParts) : getScore(kps, p) > minPart}

RECURSIVE SumX(_, _)
SumX(kps, S) ==
    IF S = {} THEN 0
    ELSE LET p == CHOOSE q \in S : TRUE IN getX(kps, p) + SumX(kps, S \ {p})

\* v < headX(): headX() is sum / length, which is NaN (every comparison
\* false) when no head part passed the filter.
ltHeadX(kps, minPart, v) ==
    LET H == headVals(kps, minPart) IN
    Cardinality(H) > 0 /\ v * Cardinality(H) < SumX(kps, H)

\* Variant: the average over no head part is taken to be 0.
gtHeadX_emptyIsZero(kps, minPart, v) ==
    LET H == headVals(kps, minPart) IN
    IF Cardinality(H) = 0 THEN v > 0
    ELSE v * Cardinality(H) > SumX(kps, H)

\* v > headX()
gtHeadX(kps, minPart, v) ==
    LET H == headVals(kps, minPart) IN
    Cardinality(H) > 0 /\ v * Cardinality(H) > SumX(kps, H)

bothArmsUp(kps) ==
    /\ getY(kps, "leftWrist") < getY(kps, "leftElbow")
    /\ getY(kps, "leftElbow") < getY(kps, "leftShoulder")
    /\ getY(kps, "rightWrist") < getY(kps, "rightElbow")
    /\ getY(kps, "rightElbow") < getY(kps, "rightShoulder")

\* Variant: one arm up, whatever the other arm does.
oneArmUp_atLeastOne(kps) ==
    \/ /\ getY(kps, "leftWrist") < getY(kps, "leftElbow")
       /\ getY(kps, "leftElbow") < getY(kps, "leftShoulder")
    \/ /\ getY(kps, "rightWrist") < getY(kps, "rightElbow")
       /\ getY(kps, "rightElbow") < getY(kps, "rightShoulder")

oneArmUp(kps) ==
    \/ /\ getY(kps, "leftWrist") < getY(kps, "leftElbow")
       /\ getY(kps, "leftElbow") < getY(kps, "leftShoulder")
       /\ getY(kps, "rightWrist") > getY(kps, "rightElbow")
       /\ getY(kps, "rightElbow") > getY(kps, "rightShoulder")
    \/ /\ getY(kps, "leftWrist") > getY(kps, "leftElbow")
       /\ getY(kps, "leftElbow") > getY(kps, "leftShoulder")
       /\ getY(kps, "rightWrist") < getY(kps, "rightElbow")
       /\ getY(kps, "rightElbow") < getY(kps, "rightShoulder")

wristsAboveElbows(kps) ==
    /\ getY(kps, "leftWrist") < getY(kps, "leftElbow")
    /\ getY(kps, "rightWrist") < getY(kps, "rightElbow")

\* Variant: only the first orientation (left wrist left of the head).
wristsOpposite_leftFirst(kps, minPart) ==
    /\ ltHeadX(kps, minPart, getX(kps, "leftWrist"))
    /\ gtHeadX(kps, minPart, getX(kps, "rightWrist"))

wristsOpposite(kps, minPart) ==
    \/ /\ ltHeadX(kps, minPart, getX(kps, "leftWrist"))
       /\ gtHeadX(kps, minPart, getX(kps, "rightWrist"))
    \/ /\ gtHeadX(kps, minPart, getX(kps, "leftWrist"))
       /\ ltHeadX(kps, minPart, getX(kps, "rightWrist"))

wristsSameSide(kps, minPart) ==
    \/ /\ ltHeadX(kps, minPart, getX(kps, "leftWrist"))
       /\ ltHeadX(kps, minPart, getX(kps, "rightWrist"))
    \/ /\ gtHeadX(kps, minPart, getX(kps, "leftWrist"))
       /\ gtHeadX(kps, minPart, getX(kps, "rightWrist"))

(***************************************************************************)
(* One condition of the chain, evaluated left to right with the short      *)
(* circuit of &&: "throw" when a keypoint it reads is missing, "match"     *)
(* when the condition is true, "skip" when it is false.                    *)
(***************************************************************************)
condYMCA(kps, minPart) ==
    IF Missing(kps, armParts6) THEN "throw"
    ELSE IF ~isAllConfidentParts(kps, minPart, armParts6) THEN "skip"
    ELSE IF ~bothArmsUp(kps) THEN "skip"
    ELSE IF Missing(kps, headParts) THEN "throw"
    ELSE IF wristsOpposite(kps, minPart) THEN "match" ELSE "skip"

condBabyShark(kps, minPart) ==
    IF Missing(kps, armParts6) THEN "throw"
    ELSE IF ~isAllConfidentParts(kps, minPart, armParts6) THEN "skip"
    ELSE IF ~oneArmUp(kps) THEN "skip"
    ELSE IF Missing(kps, headParts) THEN "throw"
    ELSE IF wristsSameSide(kps, minPart) THEN "match" ELSE "skip"

condDisco(kps, minPart) ==
    IF Missing(kps, armParts6) THEN "throw"
    ELSE IF ~isAllConfidentParts(kps, minPart, armParts6) THEN "skip"
    ELSE IF ~oneArmUp(kps) THEN "skip"
    ELSE IF Missing(kps, headParts) THEN "throw"
    ELSE IF wristsOpposite(kps, minPart) THEN "match" ELSE "skip"

condThriller(kps, minPart) ==
    IF Missing(kps, armParts4) THEN "throw"
    ELSE IF ~isAllConfidentParts(kps, minPart, armParts4) THEN "skip"
    ELSE IF ~wristsAboveElbows(kps) THEN "skip"
    ELSE IF Missing(kps, headParts) THEN "throw"
    ELSE IF wristsSameSide(kps, minPart) THEN "match" ELSE "skip"

\* Variant: > in place of >=.
passesPoseGate_strict(score, minPose) == score > minPose

\* if (score >= minPoseConfidence)
passesPoseGate(score, minPose) == score >= minPose

\* Variant: the chain is evaluated from its last condition to its first.
Classify_lastFirst(p, minPose, minPart) ==
    IF ~passesPoseGate(p.score, minPose) THEN NoMatch
    ELSE LET kps == p.keypoints IN
         IF condThriller(kps, minPart) # "skip"
         THEN (IF condThriller(kps, minPart) = "match" THEN "Thriller" ELSE TypeError)
         ELSE IF condDisco(kps, minPart) # "skip"
         THEN (IF condDisco(kps, minPart) = "match" THEN "Disco" ELSE TypeError)
         ELSE IF condBabyShark(kps, minPart) # "skip"
         THEN (IF condBabyShark(kps, minPart) = "match" THEN "Baby Shark" ELSE TypeError)
         ELSE IF condYMCA(kps, minPart) # "skip"
         THEN (IF condYMCA(kps, minPart) = "match" THEN "YMCA" ELSE TypeError)
         ELSE NoMatch

\* The name handed to updateState for one pose, NoMatch when the callback
\* calls nothing, TypeError when it throws.
Classify(p, minPose, minPart) ==
    IF ~passesPoseGate(p.score, minPose) THEN NoMatch
    ELSE LET kps == p.keypoints IN
         IF condYMCA(kps, minPart) # "skip"
         THEN (IF condYMCA(kps, minPart) = "match" THEN "YMCA" ELSE TypeError)
         ELSE IF condBabyShark(kps, minPart) # "skip"
         THEN (IF condBabyShark(kps, minPart) = "match" THEN "Baby Shark" ELSE TypeError)
         ELSE IF condDisco(kps, minPart) # "skip"
         THEN (IF condDisco(kps, minPart) = "match" THEN "Disco" ELSE TypeError)
         ELSE IF condThriller(kps, minPart) # "skip"
         THEN (IF condThriller(kps, minPart) = "match" THEN "Thriller" ELSE TypeError)
         ELSE NoMatch

(***************************************************************************)
(* Poses the pose estimator delivers to the frame loop in this model: the   *)
(* keypoints the chain reads present and confident, the head at x = 300.   *)
(* An arm is <<wrist y, elbow y, shoulder y>>; smaller y is higher.        *)
(***************************************************************************)
ArmUp == <<100, 200, 300>>
ArmDown == <<500, 400, 300>>

MkPose(score, conf, left, right, leftWristX, rightWristX) ==
    [score |-> score,
     keypoints |->
        [p \in Parts |->
            [score |-> conf,
             x |-> CASE p = "leftWrist" -> leftWristX
                     [] p = "rightWrist" -> rightWristX
                     [] OTHER -> 300,
             y |-> CASE p = "leftWrist" -> left[1]
                     [] p = "leftElbow" -> left[2]
                     [] p = "leftShoulder" -> left[3]
                     [] p = "rightWrist" -> right[1]
                     [] p = "rightElbow" -> right[2]
                     [] p = "rightShoulder" -> right[3]
                     [] OTHER -> 50]]]

PoseArmsUpApart == MkPose(90, 90, ArmUp, ArmUp, 200, 400)
PoseOneArmUpSameSide == MkPose(90, 90, ArmUp, ArmDown, 200, 250)
PoseOneArmUpApart == MkPose(90, 90, ArmUp, ArmDown, 200, 400)
PoseArmsUpSameSide == MkPose(90, 90, ArmUp, ArmUp, 200, 250)
PoseArmsDown == MkPose(90, 90, ArmDown, ArmDown, 200, 400)

FramePoses ==
    { PoseArmsUpApart, PoseOneArmUpSameSide, PoseOneArmUpApart,
      PoseArmsUpSameSide, PoseArmsDown }

\* The poses of the sequential feed.
SeqPoses == { PoseArmsUpApart, PoseOneArmUpApart, PoseArmsDown }

(***************************************************************************)
(* Poses for the classifier alone.  A pose is built from its overall score,*)
(* the arm parts whose confidence is `lowConf` (the others are at 90), the *)
(* head parts that are confident (the others are at 10), the parts for     *)
(* which keypoints holds no entry, the shape of each arm and the x of each *)
(* wrist.  The head parts sit around x = 300.                              *)
(***************************************************************************)
MaxLow == 1         \* arm parts of one pose at a low confidence
MaxAbsent == 1      \* parts of one pose without a keypoint entry

ArmHalf == <<350, 400, 300>>   \* wrist above elbow, elbow below shoulder
ArmShapes == {ArmUp, ArmDown, ArmHalf}
WristXs == {200, 300, 400}
PoseScores == {9, 10, 14, 15, 90}
LowConfs == {10, 11, 50, 51}
HeadSeen == { Range(headParts), {}, {"nose"}, {"leftEar", "rightEye"} }
AbsentCandidates == {"leftWrist", "leftShoulder", "nose"}

headPartX(p) ==
    CASE p = "nose" -> 300
      [] p = "leftEye" -> 310
      [] p = "rightEye" -> 290
      [] p = "leftEar" -> 320
      [] p = "rightEar" -> 280

GenPose(score, low, lowConf, seen, absent, left, right, leftWristX, rightWristX) ==
    [score |-> score,
     keypoints |->
        [p \in Parts \ absent |->
            [score |-> IF p \in low THEN lowConf
                       ELSE IF p \in Range(headParts) \ seen THEN 10
                       ELSE 90,
             x |-> CASE p = "leftWrist" -> leftWristX
                     [] p = "rightWrist" -> rightWristX
                     [] p \in Range(headParts) -> headPartX(p)
                     [] OTHER -> 300,
             y |-> CASE p = "leftWrist" -> left[1]
                     [] p = "leftElbow" -> left[2]
                     [] p = "leftShoulder" -> left[3]
                     [] p = "rightWrist" -> right[1]
                     [] p = "rightElbow" -> right[2]
                     [] p = "rightShoulder" -> right[3]
                     [] OTHER -> 50]]]

\* One defect per pose: some arm parts at a low confidence, or some parts
\* without an entry, or neither.
LowSets == {L \in SUBSET Range(armParts6) : Cardinality(L) <= MaxLow}
AbsentSets == {A \in SUBSET AbsentCandidates : Cardinality(A) <= MaxAbsent}
Defects ==
    {<<L, c, {}>> : L \in LowSets \ {{}}, c \in LowConfs}
        \cup {<<{}, 90, A>> : A \in AbsentSets}

GenPoses ==
    { GenPose(sc, d[1], d[2], seen, d[3], left, right, lx, rx) :
        sc \in PoseScores, d \in Defects, seen \in HeadSeen,
        left \in ArmShapes, right \in ArmShapes,
        lx \in WristXs, rx \in WristXs }

(***************************************************************************)
(* updateState (camera.js:52-84).                                          *)
(***************************************************************************)
Outcomes == {"ok", "401", "404"}   \* resolved, or rejected with ex.status

Pending(c) == c.play = "pending" \/ c.seek = "pending"
NoPending == \A i \in DOMAIN calls : ~Pending(calls[i])

\* Variant: the comparison is made with the initial value, not the held one.
isSameState_initial(newState) == newState = ""

\* if (currentState === newState) return;
isSameState(newState) == currentState = newState

\* Variant: the table lacks the entry of the last gesture of the chain.
inSongLookup_partial(newState) == newState \in {"YMCA", "Baby Shark", "Disco"}

\* if (newState in songLookup)
inSongLookup(newState) == newState \in DOMAIN songLookup

\* Variant: >= in place of >.
needsSeek_orZero(song) == song.position >= 0

\* if (song.position > 0)
needsSeek(song) == song.position > 0

\* if (ex.status === 401)
isAuthExpired(status) == status = "401"

\* Variant: the assignment sits inside the try block, after the awaits.
stateAfterAttempt_inTry(newState, outcome) ==
    IF outcome = "ok" THEN newState ELSE currentState

\* currentState = newState; the last statement, reached on every path that
\* left the try / catch.
stateAfterAttempt(newState, outcome) == newState

PlayRequest(i, newState, device) ==
    [kind |-> "play", call |-> i, name |-> newState,
     arg |-> songLookup[newState].uri, device |-> device,
     at |-> Len(classified) + 1]

\* spotifyApi.seek(song.position): the position alone, no device.
SeekRequest(i, newState) ==
    [kind |-> "seek", call |-> i, name |-> newState,
     arg |-> songLookup[newState].position, device |-> NoDevice,
     at |-> Len(classified)]

AuthorizeRequest(i, newState) ==
    [kind |-> "authorize", call |-> i, name |-> newState,
     arg |-> "accounts.spotify.com/authorize", device |-> NoDevice,
     at |-> Len(classified)]

\* Variant: currentState is assigned before the device is looked up.
deviceLookupThrows_stateSet(newState) ==
    /\ thrown' = thrown + 1
    /\ currentState' = newState
    /\ UNCHANGED <<calls, requests, consoleErrors>>

\* const selectedDevice = getSelectedDevice() with no selected option:
\* e.options[e.selectedIndex] is undefined and reading .value throws, so
\* the promise of updateState rejects before anything else is done.
deviceLookupThrows(newState) ==
    /\ thrown' = thrown + 1
    /\ UNCHANGED <<currentState, calls, requests, consoleErrors>>

\* The synchronous part of updateState(newState), up to the first await.
updateState(newState) ==
    IF isSameState(newState)
    THEN UNCHANGED <<currentState, calls, requests, consoleErrors, thrown>>
    ELSE IF selectedDevice = NoDevice
    THEN deviceLookupThrows(newState)
    ELSE IF inSongLookup(newState)
    THEN /\ calls' = Append(calls,
                [name |-> newState, at |-> Len(classified) + 1,
                 play |-> "pending", seek |-> "none"])
         /\ requests' = Append(requests,
                PlayRequest(Len(calls) + 1, newState, selectedDevice))
         /\ UNCHANGED <<currentState, consoleErrors, thrown>>
    ELSE /\ consoleErrors' = Append(consoleErrors, newState)
         /\ currentState' = newState
         /\ UNCHANGED <<calls, requests, thrown>>

\* The rest of updateState once the awaited call of invocation i has
\* settled with `outcome`: the catch block and the final assignment.
Finish(i, field, outcome) ==
    /\ calls' = [calls EXCEPT ![i][field] = outcome]
    /\ requests' = IF outcome # "ok" /\ isAuthExpired(outcome)
                   THEN Append(requests, AuthorizeRequest(i, calls[i].name))
                   ELSE requests
    /\ currentState' = stateAfterAttempt(calls[i].name, outcome)

PlaySettles(i, outcome) ==
    /\ page = "loaded"
    /\ posesLeft = 0
    /\ calls[i].play = "pending"
    /\ IF outcome = "ok" /\ needsSeek(songLookup[calls[i].name])
       THEN /\ calls' = [calls EXCEPT ![i].play = "ok", ![i].seek = "pending"]
            /\ requests' = Append(requests, SeekRequest(i, calls[i].name))
            /\ UNCHANGED currentState
       ELSE Finish(i, "play", outcome)
    /\ UNCHANGED <<selectedDevice, posesLeft, classified, consoleErrors, thrown,
                   pose, guiState, page>>

SeekSettles(i, outcome) ==
    /\ page = "loaded"
    /\ posesLeft = 0
    /\ calls[i].seek = "pending"
    /\ Finish(i, "seek", outcome)
    /\ UNCHANGED <<selectedDevice, posesLeft, classified, consoleErrors, thrown,
                   pose, guiState, page>>

(***************************************************************************)
(* The device <select> (camera.js:692-716): updateDeviceList fills it and  *)
(* the user picks an option.  To keep the model finite and small the       *)
(* selection only moves down the option list.                              *)
(***************************************************************************)
OptionIndex(d) ==
    IF d = NoDevice THEN 0 ELSE CHOOSE i \in DOMAIN DeviceList : DeviceList[i] = d

SelectDevice(d) ==
    /\ page = "loaded"
    /\ posesLeft = 0
    /\ OptionIndex(d) > OptionIndex(selectedDevice)
    /\ selectedDevice' = d
    /\ UNCHANGED <<currentState, posesLeft, calls, requests, classified,
                   consoleErrors, thrown, pose, guiState, page>>

(***************************************************************************)
(* The frame loop (camera.js:447-628).  A frame delivers n poses; the      *)
(* forEach visits them without yielding, so nothing settles in between.    *)
(***************************************************************************)
\* requestAnimationFrame(poseDetectionFrame) is reached after the forEach
\* whatever its callbacks did: they are async, so what they throw becomes a
\* rejected promise.
frameScheduled == posesLeft = 0

BeginFrame(n, limit) ==
    /\ page = "loaded"
    /\ frameScheduled
    /\ Len(classified) + n <= limit
    /\ posesLeft' = n
    /\ UNCHANGED <<currentState, selectedDevice, calls, requests, classified,
                   consoleErrors, thrown, pose, guiState, page>>

\* Variant: a final else that reports "none" to updateState.
fallThrough_reports ==
    updateState(NoMatch)

\* Variant: a final else that pauses the playback.
fallThrough_pauses ==
    /\ requests' = Append(requests,
            [kind |-> "pause", call |-> 0, name |-> NoMatch, arg |-> "",
             device |-> NoDevice, at |-> Len(classified) + 1])
    /\ UNCHANGED <<currentState, calls, consoleErrors, thrown>>

\* The chain has no final else: a pose that matches no condition calls
\* nothing (camera.js:620-622).
fallThrough ==
    UNCHANGED <<currentState, calls, requests, consoleErrors, thrown>>

VisitPose(p) ==
    /\ posesLeft > 0
    /\ posesLeft' = posesLeft - 1
    /\ pose' = p
    /\ LET c == Classify(p, guiState.minPoseConfidence,
                         guiState.minPartConfidence) IN
       /\ classified' = Append(classified, c)
       /\ IF c = NoMatch
          THEN fallThrough
          ELSE IF c = TypeError
          THEN /\ thrown' = thrown + 1
               /\ UNCHANGED <<currentState, calls, requests, consoleErrors>>
          ELSE updateState(c)
    /\ UNCHANGED <<selectedDevice, guiState, page>>

(***************************************************************************)
(* authorize() assigns window.location.href (camera.js:678-681): the       *)
(* browser starts a navigation to the authorization endpoint.  The scripts *)
(* of the page go on running until the navigation commits, which can       *)
(* happen between any two tasks; from then on nothing of this page runs.   *)
(***************************************************************************)
NavigationStarted ==
    \E j \in DOMAIN requests : requests[j].kind = "authorize"

LeavePage ==
    /\ page = "loaded"
    /\ posesLeft = 0
    /\ NavigationStarted
    /\ page' = "left"
    /\ UNCHANGED <<currentState, selectedDevice, posesLeft, calls, requests,
                   classified, consoleErrors, thrown, pose, guiState>>

\* let poses = []: no pose has been delivered yet.
NoPose == [score |-> 0, keypoints |-> <<>>]

Init ==
    /\ currentState = ""
    /\ selectedDevice = NoDevice
    /\ posesLeft = 0
    /\ calls = <<>>
    /\ requests = <<>>
    /\ classified = <<>>
    /\ consoleErrors = <<>>
    /\ thrown = 0
    /\ pose = NoPose
    /\ guiState = multiPoseDetection
    /\ page = "loaded"

Settle ==
    \E i \in DOMAIN calls, o \in Outcomes : PlaySettles(i, o) \/ SeekSettles(i, o)

Next ==
    \/ \E n \in 1..MaxPoses : BeginFrame(n, MaxEvents)
    \/ \E p \in FramePoses : VisitPose(p)
    \/ Settle
    \/ LeavePage
    \/ \E d \in Devices : SelectDevice(d)

Spec == Init /\ [][Next]_vars

\* The same loop, one pose deeper.
NextDeep ==
    \/ \E n \in 1..MaxPoses : BeginFrame(n, MaxDeep)
    \/ \E p \in FramePoses : VisitPose(p)
    \/ Settle
    \/ LeavePage
    \/ \E d \in Devices : SelectDevice(d)

SpecDeep == Init /\ [][NextDeep]_vars

\* updateState called directly, as a test of the function does, with a name
\* outside songLookup; the frame loop runs beside it.
UnmappedNames == {"Macarena"}

CallUpdateState(n) ==
    /\ page = "loaded"
    /\ posesLeft = 0
    /\ Len(classified) < MaxEvents
    /\ classified' = Append(classified, n)
    /\ updateState(n)
    /\ UNCHANGED <<selectedDevice, posesLeft, pose, guiState, page>>

NextUnit ==
    \/ \E n \in 1..MaxPoses : BeginFrame(n, MaxEvents)
    \/ \E p \in FramePoses : VisitPose(p)
    \/ Settle
    \/ LeavePage
    \/ \E d \in Devices : SelectDevice(d)
    \/ \E n \in UnmappedNames : CallUpdateState(n)

SpecUnit == Init /\ [][NextUnit]_vars

\* Sequential feed: a device is selected, every frame carries one pose out
\* of SeqPoses, and a frame only starts once every earlier updateState has
\* settled.
InitSeq ==
    /\ currentState = ""
    /\ selectedDevice = DeviceList[1]
    /\ posesLeft = 0
    /\ calls = <<>>
    /\ requests = <<>>
    /\ classified = <<>>
    /\ consoleErrors = <<>>
    /\ thrown = 0
    /\ pose = NoPose
    /\ guiState = multiPoseDetection
    /\ page = "loaded"

NextSeq ==
    \/ NoPending /\ BeginFrame(1, MaxFed)
    \/ \E p \in SeqPoses : VisitPose(p)
    \/ Settle
    \/ LeavePage

SpecSeq == InitSeq /\ [][NextSeq]_vars

\* The classifier alone: one frame delivers one pose out of GenPoses, under
\* the thresholds of either algorithm, with a device selected.
InitClassify ==
    /\ currentState = ""
    /\ selectedDevice = DeviceList[1]
    /\ posesLeft = 1
    /\ calls = <<>>
    /\ requests = <<>>
    /\ classified = <<>>
    /\ consoleErrors = <<>>
    /\ thrown = 0
    /\ pose \in GenPoses
    /\ guiState \in {multiPoseDetection, singlePoseDetection}
    /\ page = "loaded"

NextClassify ==
    \/ VisitPose(pose)
    \/ Settle
    \/ LeavePage

SpecClassify == InitClassify /\ [][NextClassify]_vars

(***************************************************************************)
(* Vocabulary of the properties.                                           *)
(***************************************************************************)
IsName(c) == c # NoMatch /\ c # TypeError

\* The names handed to updateState, in call order.
Passed == SelectSeq(classified, IsName)

IsPlay(r) == r.kind = "play"
Plays == SelectSeq(requests, IsPlay)
PlayedNames == [j \in DOMAIN Plays |-> Plays[j].name]

\* Positions of Passed at which the classified gesture changes (the first
\* name is a change from the initial state).
Changes ==
    {i \in DOMAIN Passed : Passed[i] # (IF i = 1 THEN "" ELSE Passed[i - 1])}

InFlight == {i \in DOMAIN calls : Pending(calls[i])}

RequestsOf(i, kind) ==
    {j \in DOMAIN requests : requests[j].call = i /\ requests[j].kind = kind}

(***************************************************************************)
(* C1.  Every change of the classified gesture to a name G causes exactly  *)
(* one play request: as long as every device lookup succeeded, the number  *)
(* of play requests equals the number of changes in the sequence of names  *)
(* handed to updateState (repeats of the same name add none).              *)
(***************************************************************************)
C1_OnePlayPerChange ==
    thrown = 0 => Len(Plays) = Cardinality(Changes)

(***************************************************************************)
(* C2.  At most one playback action (a play request and its follow-up      *)
(* seek) is in flight at any time.                                         *)
(***************************************************************************)
C2_AtMostOneInFlight ==
    Cardinality(InFlight) <= 1

(***************************************************************************)
(* C3.  Whenever no playback call is pending, currentState is the name     *)
(* passed to the most recent updateState call (device lookups succeeded).  *)
(***************************************************************************)
C3_HeldIsLatest ==
    (NoPending /\ thrown = 0 /\ Passed # <<>>) =>
        currentState = Passed[Len(Passed)]

(***************************************************************************)
(* C4.  Fed one name at a time, every call settled before the next         *)
(* (SpecSeq): the play requests are exactly the names that differ from the *)
(* held state, in order, the held state is the last of them once the call  *)
(* has settled, and none, YMCA, YMCA, Disco, Disco, Disco yields the two   *)
(* transitions YMCA, Disco.                                                *)
(***************************************************************************)
RECURSIVE Transitions(_, _)
Transitions(names, held) ==
    IF names = <<>> THEN <<>>
    ELSE IF Head(names) = NoMatch \/ Head(names) = held
         THEN Transitions(Tail(names), held)
         ELSE <<Head(names)>> \o Transitions(Tail(names), Head(names))

LastOr(names, default) ==
    IF names = <<>> THEN default ELSE names[Len(names)]

Script == <<NoMatch, "YMCA", "YMCA", "Disco", "Disco", "Disco">>

C4_TransitionsAtChanges ==
    /\ PlayedNames = Transitions(classified, "")
    /\ NoPending => currentState = LastOr(Transitions(classified, ""), "")
    /\ classified = Script => PlayedNames = <<"YMCA", "Disco">>
    /\ (classified = Script /\ NoPending) => currentState = "Disco"

C4_ScriptFed ==
    /\ classified = Script
    /\ NoPending
    /\ PlayedNames = <<"YMCA", "Disco">>
    /\ currentState = "Disco"

(***************************************************************************)
(* C5, as claimed.  A no-match frame replaces the held gesture with "none":*)
(* after G, no-match, G (every call settled between frames) two play       *)
(* requests for G have been issued.                                        *)
(***************************************************************************)
PlaysFor(G) == {j \in DOMAIN Plays : Plays[j].name = G}

C6_NoReissueAfterExpiry ==
    \A a \in DOMAIN requests :
        requests[a].kind = "authorize" =>
            /\ Cardinality(RequestsOf(requests[a].call, "authorize")) = 1
            /\ \A j \in DOMAIN requests :
                  j > a => requests[j].call # requests[a].call
            /\ \A j \in DOMAIN requests :
                  ~ /\ j > a
                    /\ requests[j].kind = "play"
                    /\ requests[j].name = requests[a].name
                    /\ \A m \in calls[requests[a].call].at..requests[j].at :
                          classified[m] = requests[a].name

(***************************************************************************)
(* C7.  When the playback attempt of a transition to G settles, whatever   *)
(* its outcome, currentState is G in the state that follows.               *)
(***************************************************************************)
C7_StateFollowsAttempt ==
    [][\A i \in DOMAIN calls :
          (Pending(calls[i]) /\ ~Pending(calls'[i])) =>
              currentState' = calls[i].name]_vars

C7_FailedAttemptHeld ==
    \E i \in DOMAIN calls :
        /\ calls[i].play = "ok"
        /\ calls[i].seek = "404"
        /\ currentState = calls[i].name

(***************************************************************************)
(* C8.  A play or seek that failed with a status other than 401 is         *)
(* reported through the console, causes no authorize call, and the action  *)
(* is dropped (no seek after a failed play).                               *)
(***************************************************************************)
C8_OtherErrorsLogged ==
    \A i \in DOMAIN calls :
        (calls[i].play = "404" \/ calls[i].seek = "404") =>
            /\ consoleErrors # <<>>
            /\ RequestsOf(i, "authorize") = {}
            /\ calls[i].play = "404" => RequestsOf(i, "seek") = {}

(***************************************************************************)
(* C9.  Every invocation that detected a transition issued exactly one     *)
(* play request, for the mapped track; a seek request exists exactly for   *)
(* the invocations whose play resolved and whose offset is above zero, it  *)
(* carries the mapped offset and follows the play in the request order.    *)
(* Disco (offset 0) never causes a seek.                                   *)
(***************************************************************************)
C9_PlayThenSeek ==
    /\ \A i \in DOMAIN calls :
          /\ Cardinality(RequestsOf(i, "play")) = 1
          /\ Cardinality(RequestsOf(i, "seek")) =
                (IF calls[i].play = "ok" /\ songLookup[calls[i].name].position > 0
                 THEN 1 ELSE 0)
          /\ \A p \in RequestsOf(i, "play"), k \in RequestsOf(i, "seek") : p < k
    /\ \A j \in DOMAIN requests :
          /\ requests[j].kind = "play" =>
                /\ requests[j].name = calls[requests[j].call].name
                /\ requests[j].arg = songLookup[requests[j].name].uri
          /\ requests[j].kind = "seek" =>
                /\ requests[j].name = calls[requests[j].call].name
                /\ requests[j].arg = songLookup[requests[j].name].position
                /\ requests[j].name # "Disco"
                /\ requests[j].name = "YMCA" => requests[j].arg = 58000

C9_SeekIssued ==
    /\ \E j \in DOMAIN requests :
          /\ requests[j].kind = "seek"
          /\ requests[j].name = "YMCA"
          /\ requests[j].arg = 58000
    /\ \E i \in DOMAIN calls :
          /\ calls[i].name = "Disco"
          /\ calls[i].play = "ok"
          /\ RequestsOf(i, "seek") = {}

(***************************************************************************)
(* C10.  updateState called with a name outside songLookup issues no       *)
(* request and, when it got past the comparison and the device lookup,     *)
(* reports the name through console.error; every name the chain hands to   *)
(* updateState is a key of songLookup, so a step of the frame loop never   *)
(* reports.                                                                *)
(***************************************************************************)
ChainNames ==
    {Classify(p, minPoseConfidence, minPartConfidence) : p \in FramePoses}
        \ {NoMatch, TypeError}

Visited == Len(classified) = 1
Result == classified[1]
minPoseC == guiState.minPoseConfidence
minPartC == guiState.minPartConfidence
Complete == DOMAIN pose.keypoints = Parts
NothingDone ==
    /\ calls = <<>>
    /\ requests = <<>>
    /\ consoleErrors = <<>>
    /\ currentState = ""

\* What the chain makes of the keypoints of the pose once the gate is passed.
ChainResult == Classify([pose EXCEPT !.score = minPoseC + 1], minPoseC, minPartC)

(***************************************************************************)
(* C11.  A pose whose overall score is below minPoseConfidence yields no   *)
(* gesture, no updateState call and no error, whatever its keypoints are;  *)
(* a pose whose score equals minPoseConfidence gets the result of the      *)
(* chain.                                                                  *)
(***************************************************************************)
C11_PoseGate ==
    Visited =>
        /\ pose.score < minPoseC =>
               (Result = NoMatch /\ NothingDone /\ thrown = 0)
        /\ pose.score = minPoseC => Result = ChainResult

C11_BelowGateRejected ==
    /\ Visited
    /\ pose.score < minPoseC
    /\ ChainResult = "YMCA"
    /\ Result = NoMatch
    /\ NothingDone

(***************************************************************************)
(* C12.  A definition matches only if every one of its required parts has  *)
(* a confidence strictly above minPartConfidence, and a pose in which      *)
(* every definition has a required part at or below the threshold yields   *)
(* no gesture, no call and no error, whatever the positions are (poses     *)
(* with an entry for every part).                                          *)
(***************************************************************************)
RequiredParts(name) ==
    IF name = "Thriller" THEN Range(armParts4) ELSE Range(armParts6)

LowPart(p) == pose.keypoints[p].score <= minPartC

C12_PartGate ==
    (Visited /\ Complete) =>
        /\ Result \in DOMAIN songLookup =>
               \A p \in RequiredParts(Result) : pose.keypoints[p].score > minPartC
        /\ (\A name \in DOMAIN songLookup :
                \E p \in RequiredParts(name) : LowPart(p)) =>
               (Result = NoMatch /\ NothingDone /\ thrown = 0)

C12_AtThresholdIneligible ==
    /\ Visited
    /\ Complete
    /\ pose.score >= minPoseC
    /\ pose.keypoints["leftWrist"].score = minPartC
    /\ bothArmsUp(pose.keypoints)
    /\ wristsOpposite(pose.keypoints, minPartC)
    /\ Result = NoMatch
    /\ NothingDone

ConfidentHead ==
    {p \in Range(headParts) : pose.keypoints[p].score > minPartC}

\* x against the average of the confident head parts, cross-multiplied.
LeftOfHead(x) == x * Cardinality(ConfidentHead) < SumX(pose.keypoints, ConfidentHead)
RightOfHead(x) == x * Cardinality(ConfidentHead) > SumX(pose.keypoints, ConfidentHead)

YMCAPose ==
    /\ Complete
    /\ pose.score >= minPoseC
    /\ \A p \in Range(armParts6) : pose.keypoints[p].score > minPartC
    /\ pose.keypoints["leftWrist"].y < pose.keypoints["leftElbow"].y
    /\ pose.keypoints["leftElbow"].y < pose.keypoints["leftShoulder"].y
    /\ pose.keypoints["rightWrist"].y < pose.keypoints["rightElbow"].y
    /\ pose.keypoints["rightElbow"].y < pose.keypoints["rightShoulder"].y
    /\ ConfidentHead # {}
    /\ \/ LeftOfHead(pose.keypoints["leftWrist"].x)
          /\ RightOfHead(pose.keypoints["rightWrist"].x)
       \/ RightOfHead(pose.keypoints["leftWrist"].x)
          /\ LeftOfHead(pose.keypoints["rightWrist"].x)

C14_YMCAEndToEnd ==
    (Visited /\ YMCAPose) =>
        /\ Result = "YMCA"
        /\ Len(calls) = 1
        /\ calls[1].name = "YMCA"
        /\ requests # <<>>
        /\ requests[1].kind = "play"
        /\ requests[1].arg = "spotify:track:7Cp69rNBwU0gaFT8zxExlE"
        /\ Len(Plays) = 1
        /\ calls[1].play = "ok" =>
              /\ Len(requests) >= 2
              /\ requests[2].kind = "seek"
              /\ requests[2].arg = 58000
        /\ NoPending => currentState = "YMCA"

C14_YMCAPlayedAndSought ==
    /\ Visited
    /\ YMCAPose
    /\ pose.keypoints["leftWrist"].x = 400
    /\ Cardinality(ConfidentHead) = 2
    /\ Len(requests) = 2
    /\ requests[1].kind = "play"
    /\ requests[2].kind = "seek"
    /\ requests[2].arg = 58000
    /\ calls[1].seek = "ok"
    /\ currentState = "YMCA"

(***************************************************************************)
(* C15.  Visiting a pose that matches no gesture issues no request of any  *)
(* kind and starts no call; the only requests are play, seek and           *)
(* authorize; a play request is issued only in the step that visits a pose *)
(* classified as a name different from currentState, for that name; a seek *)
(* or authorize request belongs to a call that issued a play before.       *)
(***************************************************************************)
LastClassified == classified[Len(classified)]

C15_OnlyTransitionsPlay ==
    [][/\ (posesLeft' < posesLeft /\ classified'[Len(classified')] = NoMatch) =>
             (requests' = requests /\ calls' = calls)
       /\ \A j \in (DOMAIN requests') \ (DOMAIN requests) :
             /\ requests'[j].kind \in {"play", "seek", "authorize"}
             /\ requests'[j].kind = "play" =>
                   /\ posesLeft' < posesLeft
                   /\ classified'[Len(classified')] \in DOMAIN songLookup
                   /\ classified'[Len(classified')] # currentState
                   /\ requests'[j].name = classified'[Len(classified')]
             /\ requests'[j].kind # "play" =>
                   \E k \in DOMAIN requests :
                       /\ requests[k].kind = "play"
                       /\ requests[k].call = requests'[j].call]_vars

\* A no-match pose visited while a gesture is held and its call has
\* settled: nothing but the requests of that call exists.
C15_NoMatchAfterGesture ==
    /\ classified = <<"YMCA", NoMatch>>
    /\ currentState = "YMCA"
    /\ Len(requests) = 2
    /\ requests[2].kind = "seek"
    /\ NoPending

(***************************************************************************)
(* C16.  Once a playback call has failed (with any status) or an error has *)
(* escaped the forEach callback, frame processing still goes on: the page  *)
(* is still there, and whenever no forEach is running the next frame can   *)
(* begin (as long as the run has poses left).                              *)
(***************************************************************************)
AnyFailure ==
    \/ thrown > 0
    \/ \E i \in DOMAIN calls :
          calls[i].play \in {"401", "404"} \/ calls[i].seek \in {"401", "404"}

C16_FailureNeverStopsFrames ==
    AnyFailure =>
        /\ page = "loaded"
        /\ (posesLeft = 0 /\ Len(classified) < MaxEvents) =>
               ENABLED BeginFrame(1, MaxEvents)

(***************************************************************************)
(* C17.  Whenever a seek request is issued, every play request issued      *)
(* since the play of its own call is for the same gesture: no play request *)
(* for another track lies between a play and its seek, so the play issued  *)
(* last before the seek is for the track the seek was meant for.           *)
(***************************************************************************)
C17_SeekOnOwnTrack ==
    \A j \in DOMAIN requests :
        requests[j].kind = "seek" =>
            \E p \in 1..(j - 1) :
                /\ requests[p].kind = "play"
                /\ requests[p].call = requests[j].call
                /\ \A k \in (p + 1)..(j - 1) :
                      requests[k].kind = "play" =>
                          requests[k].name = requests[j].name

(***************************************************************************)
(* C18.  When no head part has a confidence above minPartConfidence, the   *)
(* pose yields no gesture, no updateState call and no error, whatever the  *)
(* arm keypoints are (poses with an entry for every part).                 *)
(***************************************************************************)
C18_NoHeadNoGesture ==
    (Visited /\ Complete /\ ConfidentHead = {}) =>
        (Result = NoMatch /\ NothingDone /\ thrown = 0)

C18_ArmsUpHeadUnseen ==
    /\ Visited
    /\ Complete
    /\ ConfidentHead = {}
    /\ pose.score >= minPoseC
    /\ isAllConfidentParts(pose.keypoints, minPartC, armParts6)
    /\ bothArmsUp(pose.keypoints)
    /\ pose.keypoints["leftWrist"].x = 200
    /\ pose.keypoints["rightWrist"].x = 400
    /\ Result = NoMatch
    /\ NothingDone

(***************************************************************************)
(* C19.  A pose without a keypoint entry for a part the chain reads is     *)
(* handled as "not observed": classification completes without an error.   *)
(***************************************************************************)
C19_MissingPartNotAnError ==
    (Visited /\ ~Complete) => (Result # TypeError /\ thrown = 0)

(***************************************************************************)
(* C20.  Every play request carries a device of the list, and every seek   *)
(* request carries the device of the play request of its call (the one     *)
(* selected when the transition was detected).                             *)
(***************************************************************************)
C20_RequestsCarryDevice ==
    \A j \in DOMAIN requests :
        /\ requests[j].kind = "play" => requests[j].device \in Devices
        /\ requests[j].kind = "seek" =>
              \A p \in RequestsOf(requests[j].call, "play") :
                  requests[j].device = requests[p].device

(***************************************************************************)
(* C21.  For every pose and either pair of thresholds at most one of the   *)
(* four conditions of the chain holds, and for a pose with an entry for    *)
(* every part the chain evaluated from its last condition to its first     *)
(* gives the same result as the chain in its own order.                    *)
(***************************************************************************)
Holding ==
    {n \in DOMAIN songLookup :
        CASE n = "YMCA" -> condYMCA(pose.keypoints, minPartC) = "match"
          [] n = "Baby Shark" -> condBabyShark(pose.keypoints, minPartC) = "match"
          [] n = "Disco" -> condDisco(pose.keypoints, minPartC) = "match"
          [] n = "Thriller" -> condThriller(pose.keypoints, minPartC) = "match"}

C21_ConditionsExclusive ==
    Visited =>
        /\ Cardinality(Holding) <= 1
        /\ Complete =>
              /\ Result = Classify_lastFirst(pose, minPoseC, minPartC)
              /\ pose.score >= minPoseC =>
                    Holding = (IF Result = NoMatch THEN {} ELSE {Result})

\* One arm up and the wrists on opposite sides: Disco alone holds, although
\* the parts and the vertical test are those of Baby Shark as well.
C21_DiscoAlone ==
    /\ Visited
    /\ Complete
    /\ Holding = {"Disco"}
    /\ Result = "Disco"
    /\ oneArmUp(pose.keypoints)
    /\ Classify_lastFirst(pose, minPoseC, minPartC) = "Disco"

(***************************************************************************)
(* C22.  When a pose is classified as a name different from currentState   *)
(* while no device is selected, the step issues no request, starts no      *)
(* call, reports nothing and leaves currentState unchanged (the error      *)
(* escapes); so a later pose classified as the same name is compared with  *)
(* the same currentState and is a transition again: once a device is       *)
(* selected it issues the play request.                                    *)
(***************************************************************************)
C22_NoDeviceNoEffect ==
    [][(/\ posesLeft' < posesLeft
        /\ classified'[Len(classified')] \in DOMAIN songLookup
        /\ classified'[Len(classified')] # currentState) =>
            IF selectedDevice = NoDevice
            THEN /\ requests' = requests
                 /\ calls' = calls
                 /\ consoleErrors' = consoleErrors
                 /\ currentState' = currentState
                 /\ thrown' = thrown + 1
            ELSE /\ Len(requests') = Len(requests) + 1
                 /\ requests'[Len(requests')].kind = "play"
                 /\ requests'[Len(requests')].name = classified'[Len(classified')]
                 /\ thrown' = thrown]_vars

\* The same gesture twice: the first attempt failed on the device lookup,
\* the second, with a device selected, issued the play request.
C22_SecondAttemptPlays ==
    /\ classified = <<"YMCA", "YMCA">>
    /\ thrown = 1
    /\ Len(requests) = 1
    /\ requests[1].kind = "play"
    /\ requests[1].name = "YMCA"
    /\ requests[1].at = 2

=============================================================================
